---- MODULE Spec2Model ----
(***************************************************************************)
(* Model of the device-authorization server of AVS-auth-server             *)
(* (authentication.js and app.js, both carried in src/unnamed/part_000).   *)
(*                                                                         *)
(* The state is the five module-level tables of authentication.js, the     *)
(* expiry timer, the wall clock, and what Node's event loop still has to   *)
(* deliver: crypto.randomBytes callbacks and the events of the outbound    *)
(* https requests.  Every action is one event-loop turn: a synchronous    *)
(* handler run to completion.                                              *)
(*                                                                         *)
(* Idealisations, all stated here:                                         *)
(*  - crypto.randomBytes never returns the same buffer twice: its k-th     *)
(*    draw is the buffer whose bytes all equal k;                          *)
(*  - the clock (ms) never goes back, and is read at a few instants only:   *)
(*    the start, MIN_POLL_RATE later, and the same again after every half  *)
(*    of a registration's lifetime (see Instant);                          *)
(*  - MAX_PENDING_REG is scaled down so the cap is within reach;           *)
(*  - setInterval may run checkExpire at any moment once it is armed;      *)
(*  - an exception nobody catches ends the process (crashed), and what     *)
(*    was in flight dies with it;                                          *)
(*  - the two nested randomBytes callbacks of getRegCode are one step (the *)
(*    first only requests the second), and so are the events of one        *)
(*    token-endpoint response: the 'data' handlers touch nothing but the   *)
(*    request's own buffer, so they run in the turn of 'end'.              *)
(***************************************************************************)
EXTENDS Integers, Sequences, FiniteSets, Bags, TLC

VARIABLES
  pendingStateToRegCode,     \* stateCode -> regCode
  pendingRegCodeToDevice,    \* regCode -> [product, dsn, deviceSecret, expires, lastCall]
  pendingDeviceToRegCode,    \* product:dsn -> regCode
  deviceInformation,         \* product:dsn -> [deviceSecret, tokens: [access, refresh, expires]]
  pendingRegistrationQueue,  \* sequence of regCodes
  intervalTimer,             \* "null" or "armed"
  curtime,                   \* new Date().getTime()
  regDraws,                  \* number of crypto.randomBytes(REG_NUM_BYTES) draws made
  stateDraws,                \* number of crypto.randomBytes(STATE_NUM_BYTES) draws made
  regCalls,                  \* bag: getRegCode calls waiting for a randomBytes callback
  redirects,                 \* bag: redirectToDeviceAuthenticate calls waiting for randomBytes
  exchanges,                 \* bag: authorization-code requests of retrieveTokens in flight
  refreshes,                 \* bag: refresh-token requests of getAccessToken in flight
  presentedStates,           \* history: issued state codes already given to retrieveTokens
  resp,                      \* what the last step delivered to its caller
  crashed,                   \* an uncaught exception ended the process
  limits                     \* the bounds this run of the model is explored under

vars == <<pendingStateToRegCode, pendingRegCodeToDevice, pendingDeviceToRegCode,
          deviceInformation, pendingRegistrationQueue, intervalTimer, curtime,
          regDraws, stateDraws, regCalls, redirects, exchanges, refreshes,
          presentedStates, resp, crashed, limits>>

tables == <<pendingStateToRegCode, pendingRegCodeToDevice, pendingDeviceToRegCode,
            deviceInformation, pendingRegistrationQueue>>

inflight == <<regCalls, redirects, exchanges, refreshes>>

-----------------------------------------------------------------------------
(* Program constants *)

MAX_REG_SECONDS == 900
MS_PER_SECOND == 1000       \* the factor in curtime + (1000 * MAX_REG_SECONDS)
MIN_POLL_RATE == 1000
MAX_PENDING_REG == 1        \* 50000 in the source, scaled down to the registrations the
                            \* model can hold
PRODUCT_MAX_LENGTH == 384
PRODUCT_MIN_LENGTH == 1
DSN_MIN_LENGTH == 1
STATE_NUM_BYTES == 32
REG_NUM_BYTES == 12

(* Bounds of the model.  It is explored under four sets of bounds: Deep
   follows one registration through the browser flow with two state codes and
   two token requests at once; Wide has two devices, two registrations and two
   getRegCode calls at once, and one state code; Again has one device that
   registers twice, and a clock that runs long enough for both registrations
   to lapse; Twice has one device that goes through the whole flow twice. *)

MaxRedirects == 1           \* redirectToDeviceAuthenticate calls in flight at once
MaxRefreshes == 1           \* token-endpoint requests of getAccessToken in flight at once
MaxChunks == 1              \* 'data' events of one response
DeepRegistrations == 1      \* getRegCode calls that get their random bytes
DeepRegCalls == 1           \* getRegCode calls in flight at once
DeepStateDraws == 2         \* randomBytes(STATE_NUM_BYTES) draws
DeepExchanges == 2          \* token-endpoint requests of retrieveTokens in flight at once
DeepMaxTime == 1            \* times the clock advances
WideRegistrations == 2
WideRegCalls == 2
WideStateDraws == 1
WideExchanges == 1
WideMaxTime == 0
AgainRegistrations == 2
AgainRegCalls == 1
AgainStateDraws == 1
AgainExchanges == 1
AgainMaxTime == 5
TwiceRegistrations == 2
TwiceRegCalls == 1
TwiceStateDraws == 2
TwiceExchanges == 1
TwiceMaxTime == 0

Deep == [regDraws |-> 2 * DeepRegistrations, regCalls |-> DeepRegCalls,
         stateDraws |-> DeepStateDraws, exchanges |-> DeepExchanges,
         maxTime |-> DeepMaxTime, dsns |-> {"DSN1"}]
Wide == [regDraws |-> 2 * WideRegistrations, regCalls |-> WideRegCalls,
         stateDraws |-> WideStateDraws, exchanges |-> WideExchanges,
         maxTime |-> WideMaxTime, dsns |-> {"DSN1", "DSN2"}]
Again == [regDraws |-> 2 * AgainRegistrations, regCalls |-> AgainRegCalls,
          stateDraws |-> AgainStateDraws, exchanges |-> AgainExchanges,
          maxTime |-> AgainMaxTime, dsns |-> {"DSN1"}]
Twice == [regDraws |-> 2 * TwiceRegistrations, regCalls |-> TwiceRegCalls,
          stateDraws |-> TwiceStateDraws, exchanges |-> TwiceExchanges,
          maxTime |-> TwiceMaxTime, dsns |-> {"DSN1"}]

-----------------------------------------------------------------------------
(* JavaScript values *)

Undefined == 0 - 1          \* a property that was never set
NaN == 0 - 2                \* number - undefined

\* a < b in JavaScript: false when a is NaN
JsLess(a, b) == a # NaN /\ a < b

\* a - b in JavaScript
JsMinus(a, b) == IF b = Undefined THEN NaN ELSE a - b

\* the properties every plain object inherits from Object.prototype
ObjectPrototypeKeys == {"constructor", "toString", "valueOf", "hasOwnProperty", "__proto__"}

Put(f, k, v) == [x \in DOMAIN f \cup {k} |-> IF x = k THEN v ELSE f[x]]
Delete(f, k) == [x \in DOMAIN f \ {k} |-> f[x]]
EmptyMap == [x \in {} |-> x]

HexDigit == <<"0", "1", "2", "3", "4", "5", "6", "7", "8", "9", "a", "b", "c", "d", "e", "f">>

\* buf.toString('hex')
RECURSIVE toHex(_)
toHex(buf) ==
  IF buf = <<>> THEN ""
  ELSE HexDigit[(Head(buf) \div 16) + 1] \o HexDigit[(Head(buf) % 16) + 1] \o toHex(Tail(buf))

\* the k-th buffer crypto.randomBytes(n, ...) hands out
randomBytes(n, k) == [i \in 1..n |-> k]

\* the hex strings of the draws, tabulated once (k is a byte: 1..255)
RegHexTable == [k \in 1..255 |-> toHex(randomBytes(REG_NUM_BYTES, k))]
StateHexTable == [k \in 1..255 |-> toHex(randomBytes(STATE_NUM_BYTES, k))]
RegHex(k) == RegHexTable[k]
StateHex(k) == StateHexTable[k]

-----------------------------------------------------------------------------
(* Configuration (config.json) and what callers may send *)

\* config.products: product -> allowed serial numbers
products == [speaker |-> <<"DSN1", "DSN2">>]

\* the (product, dsn) pairs callers send: the listed devices, an unknown
\* product, an unlisted serial number, an inherited property name, empty strings
DeviceInputs == {<<"speaker", x>> : x \in limits.dsns} \cup
                {<<"unknownproduct", "x">>, <<"speaker", "x">>, <<"constructor", "x">>, <<"", "">>}

\* registration codes a browser may type in: every code ever handed out, a
\* well-formed code that was never handed out, and a code of the wrong length
NeverIssuedRegCode == RegHex(255)
RegCodeInputs == {RegHex(k) : k \in {i \in 1..regDraws : i % 2 = 1}} \cup {NeverIssuedRegCode, "abc"}

NeverIssuedState == StateHex(255)
StateInputs == {StateHex(k) : k \in 1..stateDraws} \cup {NeverIssuedState, "abc"}

\* device secrets a device may present: every secret ever handed out, a
\* well-formed one that was never handed out, and one of the wrong length
SecretInputs == {RegHex(k) : k \in {i \in 1..regDraws : i % 2 = 0}} \cup {NeverIssuedRegCode, "abc"}

\* the calls of getAccessToken: a listed device with any secret, any other
\* pair with one secret (the secret is not looked at for those)
AccessInputs == {<<"speaker", d, x>> : d \in limits.dsns, x \in SecretInputs}
                \cup {<<d[1], d[2], "abc">> : d \in DeviceInputs}

\* JSON bodies the token endpoint may answer with
AuthResults == {[access_token |-> "A", refresh_token |-> "R", expires_in |-> 3600]}
RefreshResults == {[access_token |-> "A2", refresh_token |-> "", expires_in |-> 1800]}
Malformed == [access_token |-> "", refresh_token |-> "", expires_in |-> Undefined]
Statuses == {200, 400}

-----------------------------------------------------------------------------
(* What a step delivers to its caller: the operation (op), the error the
   callback got (err: "null" for none, "none" when nobody was called back) with
   its status, the reply, how many times this request's callback has run, and
   what the route sent over HTTP.  retrieveTokens and register also note the
   state code and registration code they were given.  pendingAtCallback: the
   callback was given an expiry error while the expired registration was
   still in pendingRegCodeToDevice. *)

NoResp == [op |-> "none", err |-> "none", status |-> 0,
           regCode |-> "", deviceSecret |-> "", expires |-> Undefined,
           poll_status |-> "", access |-> "", message |-> "", callbacks |-> 0,
           state |-> "", httpStatus |-> 0, httpBody |-> "", pendingAtCallback |-> FALSE]

\* a step that calls nobody back
Quiet(op) == [NoResp EXCEPT !.op = op]

\* callback(error(name, msg, status))
error(op, name, status) ==
  [NoResp EXCEPT !.op = op, !.err = name, !.status = status, !.callbacks = 1]

-----------------------------------------------------------------------------
(* Private helpers of authentication.js *)

\* config.products[product]: an own property, an inherited one, or undefined
productsLookup(product) ==
  IF product \in DOMAIN products THEN "array"
  ELSE IF product \in ObjectPrototypeKeys THEN "inherited"
  ELSE "undefined"

\* product.length and dsn.length within their limits
lengthsOk(product, dsn) ==
  /\ Len(product) >= PRODUCT_MIN_LENGTH
  /\ Len(product) <= PRODUCT_MAX_LENGTH
  /\ Len(dsn) >= DSN_MIN_LENGTH

isValidDevice(product, dsn) ==
  /\ lengthsOk(product, dsn)
  /\ productsLookup(product) = "array"
  /\ \E i \in DOMAIN products[product] : products[product][i] = dsn

\* config.products[product].indexOf is not a function: isValidDevice throws
isValidDeviceThrows(product, dsn) ==
  /\ lengthsOk(product, dsn)
  /\ productsLookup(product) = "inherited"

\* product + ':' + dsn
productDsn(product, dsn) == product \o ":" \o dsn

\* the pending store: the two indexes, the queue and the timer
Store == [pendingRegCodeToDevice |-> pendingRegCodeToDevice,
          pendingDeviceToRegCode |-> pendingDeviceToRegCode,
          pendingRegistrationQueue |-> pendingRegistrationQueue,
          intervalTimer |-> intervalTimer]

\* a removal that forgets the device index
removePendingDeviceCodeOnly(st, regCode) ==
  [st EXCEPT !.pendingRegCodeToDevice = Delete(@, regCode)]

\* a removal that also takes the head off the queue
removePendingDeviceShift(st, regCode) ==
  [st EXCEPT
     !.pendingRegCodeToDevice = Delete(@, regCode),
     !.pendingRegistrationQueue = IF @ = <<>> THEN @ ELSE Tail(@)]

\* delete the registration from both indexes, if it is there
removePendingDevice(st, regCode) ==
  IF regCode \in DOMAIN st.pendingRegCodeToDevice
  THEN LET dsn == st.pendingRegCodeToDevice[regCode].dsn
           product == st.pendingRegCodeToDevice[regCode].product
       IN [st EXCEPT
             !.pendingRegCodeToDevice = Delete(@, regCode),
             !.pendingDeviceToRegCode = Delete(@, productDsn(product, dsn))]
  ELSE st

\* a sweep that finds nothing expired
sweepExpiredNever(now, expires) == FALSE

\* curtime > pendingRegCodeToDevice[regCode].expires, the test of checkExpire
sweepExpired(now, expires) == now > expires

RECURSIVE checkExpire(_, _)
checkExpire(st, now) ==
  IF st.pendingRegistrationQueue = <<>> THEN st
  ELSE LET regCode == Head(st.pendingRegistrationQueue)
           shifted(s) == [s EXCEPT !.pendingRegistrationQueue = Tail(@)]
       IN IF regCode \in DOMAIN st.pendingRegCodeToDevice
          THEN IF sweepExpired(now, st.pendingRegCodeToDevice[regCode].expires)
               THEN checkExpire(shifted(removePendingDevice(st, regCode)), now)
               ELSE st
          ELSE checkExpire(shifted(st), now)

\* obj.length of a plain object used as a map: there is no such property
objectLength(obj) == IF "length" \in DOMAIN obj THEN NaN ELSE Undefined

\* a >= b in JavaScript: false when a is undefined or NaN
JsAtLeast(a, b) == a # Undefined /\ a # NaN /\ a >= b

\* pendingRegCodeToDevice.length >= MAX_PENDING_REG
atCapacity(st) == JsAtLeast(objectLength(st.pendingRegCodeToDevice), MAX_PENDING_REG)

\* a registration that lapses the moment it is made
newRegistrationNoTTL(deviceSecret, product, dsn, now) ==
  [product |-> product, dsn |-> dsn, deviceSecret |-> deviceSecret,
   expires |-> now, lastCall |-> Undefined]

\* the entry addPendingRegistration stores (it sets no lastCall)
newRegistration(deviceSecret, product, dsn, now) ==
  [product |-> product, dsn |-> dsn, deviceSecret |-> deviceSecret,
   expires |-> now + (MS_PER_SECOND * MAX_REG_SECONDS), lastCall |-> Undefined]

\* a lookup that never finds a pending registration
alreadyPendingNever(st, product, dsn) == FALSE

\* the device already has a registration pending
alreadyPending(st, product, dsn) == productDsn(product, dsn) \in DOMAIN st.pendingDeviceToRegCode

\* an insertion that forgets to queue the code
addPendingRegistrationUnqueued(st, regCode, deviceSecret, product, dsn, now) ==
  IF productDsn(product, dsn) \in DOMAIN st.pendingDeviceToRegCode
  THEN [err |-> "PendingRegistration", status |-> 403, st |-> st]
  ELSE [err |-> "null", status |-> 0,
        st |-> [st EXCEPT
                  !.pendingRegCodeToDevice =
                     Put(@, regCode, [product |-> product, dsn |-> dsn,
                                      deviceSecret |-> deviceSecret,
                                      expires |-> now + (MS_PER_SECOND * MAX_REG_SECONDS),
                                      lastCall |-> Undefined]),
                  !.pendingDeviceToRegCode = Put(@, productDsn(product, dsn), regCode),
                  !.intervalTimer = "armed"]]

\* returns [err, st]: the error (or "null") and the store afterwards
addPendingRegistration(st, regCode, deviceSecret, product, dsn, now) ==
  IF atCapacity(st)
  THEN [err |-> "Throttle", status |-> 503, st |-> st]
  ELSE IF ~alreadyPending(st, product, dsn)
  THEN [err |-> "null", status |-> 0,
        st |-> [st EXCEPT
                  !.pendingRegCodeToDevice =
                     Put(@, regCode, newRegistration(deviceSecret, product, dsn, now)),
                  !.pendingDeviceToRegCode = Put(@, productDsn(product, dsn), regCode),
                  !.pendingRegistrationQueue = Append(@, regCode),
                  !.intervalTimer = "armed"]]
  ELSE [err |-> "PendingRegistration", status |-> 403, st |-> st]

SetStore(st) ==
  /\ pendingRegCodeToDevice' = st.pendingRegCodeToDevice
  /\ pendingDeviceToRegCode' = st.pendingDeviceToRegCode
  /\ pendingRegistrationQueue' = st.pendingRegistrationQueue
  /\ intervalTimer' = st.intervalTimer

-----------------------------------------------------------------------------
(* app.js: what the routes send for a callback *)

\* GET /device/regcode/:product/:dsn; hasReply: getRegCode passed a reply object.
\* With an error and no reply, reply.regCode throws a TypeError.
regcodeRoute(r, hasReply) ==
  IF r.err = "null" THEN [r EXCEPT !.httpStatus = 200, !.httpBody = "reply"]
  ELSE IF hasReply THEN [r EXCEPT !.httpStatus = 500, !.httpBody = "error"]
  ELSE [r EXCEPT !.httpStatus = 500, !.httpBody = "TypeError"]

\* GET /authresponse and GET /device/accesstoken/...: res.status(err.status)
statusRoute(r) ==
  IF r.err = "null" THEN [r EXCEPT !.httpStatus = 200, !.httpBody = "reply"]
  ELSE [r EXCEPT !.httpStatus = r.status, !.httpBody = "error"]

-----------------------------------------------------------------------------
(* auth.getRegCode *)

\* the process is gone: nothing is in flight any more
Dead ==
  /\ crashed' = TRUE
  /\ regCalls' = EmptyBag
  /\ redirects' = EmptyBag
  /\ exchanges' = EmptyBag
  /\ refreshes' = EmptyBag

GetRegCode(product, dsn) ==
  /\ ~crashed
  /\ IF isValidDeviceThrows(product, dsn)
     THEN \* the TypeError reaches express, which answers 500
          /\ resp' = [Quiet("getRegCode") EXCEPT
                        !.err = "TypeError", !.httpStatus = 500, !.httpBody = "TypeError"]
          /\ UNCHANGED regCalls
     ELSE IF ~isValidDevice(product, dsn)
     THEN /\ resp' = regcodeRoute(error("getRegCode", "BadRequest", 400), FALSE)
          /\ UNCHANGED regCalls
     ELSE /\ BagCardinality(regCalls) < limits.regCalls
          /\ regCalls' = regCalls (+) SetToBag({[product |-> product, dsn |-> dsn]})
          /\ resp' = Quiet("getRegCode")
  /\ UNCHANGED <<tables, intervalTimer, curtime, limits, regDraws, stateDraws, redirects,
                 exchanges, refreshes, presentedStates, crashed>>

\* crypto.randomBytes fails in either draw: InternalError, and the route's
\* reply.regCode throws inside the randomBytes callback
GetRegCodeRandomFails(c) ==
  /\ ~crashed
  /\ BagIn(c, regCalls)
  /\ resp' = regcodeRoute(error("getRegCode", "InternalError", 500), FALSE)
  /\ Dead
  /\ UNCHANGED <<tables, intervalTimer, curtime, limits, regDraws, stateDraws, presentedStates>>

\* the reply of getRegCode after addPendingRegistration
getRegCodeReply(added, regCode, deviceSecret, product, dsn) ==
  IF added.err = "null"
  THEN [Quiet("getRegCode") EXCEPT
          !.err = "null", !.callbacks = 1, !.regCode = regCode,
          !.deviceSecret = deviceSecret,
          !.expires = added.st.pendingRegCodeToDevice[regCode].expires]
  ELSE [error("getRegCode", added.err, added.status) EXCEPT
          !.regCode = regCode]

\* both draws succeed: the registration is added and the caller answered
GetRegCodeDrawn(c) ==
  /\ ~crashed
  /\ BagIn(c, regCalls)
  /\ regDraws + 2 <= limits.regDraws
  /\ regDraws' = regDraws + 2
  /\ regCalls' = regCalls (-) SetToBag({c})
  /\ LET regCode == RegHex(regDraws + 1)
         deviceSecret == RegHex(regDraws + 2)
         added == addPendingRegistration(Store, regCode, deviceSecret, c.product, c.dsn, curtime)
     IN /\ SetStore(added.st)
        /\ resp' = regcodeRoute(getRegCodeReply(added, regCode, deviceSecret, c.product, c.dsn), TRUE)
  /\ UNCHANGED <<pendingStateToRegCode, deviceInformation, curtime, limits, stateDraws, redirects,
                 exchanges, refreshes, presentedStates, crashed>>

-----------------------------------------------------------------------------
(* The clock and the expiry timer *)

\* what the clock shows when the server starts
StartTime == 1

\* the i-th instant at which the clock is read: new Date().getTime()
Instant(i) ==
  StartTime + ((i \div 2) * ((MS_PER_SECOND * MAX_REG_SECONDS) \div 2)) + ((i % 2) * MIN_POLL_RATE)

\* time passes between two turns of the event loop
Tick ==
  /\ ~crashed
  /\ \E i \in 0 .. (limits.maxTime - 1) : curtime = Instant(i) /\ curtime' = Instant(i + 1)
  /\ resp' = Quiet("tick")
  /\ UNCHANGED <<tables, intervalTimer, limits, regDraws, stateDraws, inflight,
                 presentedStates, crashed>>

\* setInterval(checkExpire, EXPIRE_CHECK_INTERVAL) fires
CheckExpire ==
  /\ ~crashed
  /\ intervalTimer = "armed"
  /\ SetStore(checkExpire(Store, curtime))
  /\ resp' = Quiet("checkExpire")
  /\ UNCHANGED <<pendingStateToRegCode, deviceInformation, curtime, limits, regDraws, stateDraws,
                 inflight, presentedStates, crashed>>

-----------------------------------------------------------------------------
(* auth.register and redirectToDeviceAuthenticate *)

\* a test no registration ever fails
unexpiredAlways(expires, now) == TRUE

\* prodInfo.expires > curtime, the test of register, retrieveTokens and getAccessToken
unexpired(expires, now) == expires > now

\* regCode.length != REG_NUM_BYTES*2 || !pendingRegCodeToDevice[regCode]
invalidRegCode(regCode) ==
  Len(regCode) # REG_NUM_BYTES * 2 \/ regCode \notin DOMAIN pendingRegCodeToDevice

\* GET /device/register/:regcode: res.status(err.status); next(err)
registerRoute(r) == [r EXCEPT !.httpStatus = r.status, !.httpBody = "text"]

Register(regCode) ==
  /\ ~crashed
  /\ IF invalidRegCode(regCode)
     THEN /\ resp' = [registerRoute(error("register", "InvalidRegistrationCode", 401))
                        EXCEPT !.regCode = regCode]
          /\ UNCHANGED <<redirects, pendingRegCodeToDevice, pendingDeviceToRegCode>>
     ELSE IF unexpired(pendingRegCodeToDevice[regCode].expires, curtime)
     THEN /\ BagCardinality(redirects) < MaxRedirects
          /\ redirects' = redirects (+) SetToBag({[regCode |-> regCode]})
          /\ resp' = [Quiet("register") EXCEPT !.regCode = regCode]
          /\ UNCHANGED <<pendingRegCodeToDevice, pendingDeviceToRegCode>>
     ELSE \* callback(error(...)) runs first, removePendingDevice(regCode) after it
          /\ resp' = [registerRoute(error("register", "ExpiredRegistrationCode", 401))
                        EXCEPT !.regCode = regCode,
                               !.pendingAtCallback = regCode \in DOMAIN pendingRegCodeToDevice]
          /\ LET st == removePendingDevice(Store, regCode)
             IN /\ pendingRegCodeToDevice' = st.pendingRegCodeToDevice
                /\ pendingDeviceToRegCode' = st.pendingDeviceToRegCode
          /\ UNCHANGED redirects
  /\ UNCHANGED <<pendingStateToRegCode, deviceInformation, pendingRegistrationQueue,
                 intervalTimer, curtime, limits, regDraws, stateDraws, regCalls, exchanges,
                 refreshes, presentedStates, crashed>>

\* the randomBytes callback of redirectToDeviceAuthenticate, without error
RedirectDraw(r) ==
  /\ ~crashed
  /\ BagIn(r, redirects)
  /\ stateDraws < limits.stateDraws
  /\ stateDraws' = stateDraws + 1
  /\ redirects' = redirects (-) SetToBag({r})
  /\ LET state == StateHex(stateDraws + 1)
     IN /\ pendingStateToRegCode' = Put(pendingStateToRegCode, state, r.regCode)
        /\ resp' = [Quiet("redirect") EXCEPT
                      !.state = state, !.regCode = r.regCode, !.httpStatus = 302, !.httpBody = "redirect"]
  /\ UNCHANGED <<pendingRegCodeToDevice, pendingDeviceToRegCode, deviceInformation,
                 pendingRegistrationQueue, intervalTimer, curtime, limits, regDraws, regCalls,
                 exchanges, refreshes, presentedStates, crashed>>

\* the randomBytes callback of redirectToDeviceAuthenticate, with an error: next(err)
RedirectRandomFails(r) ==
  /\ ~crashed
  /\ BagIn(r, redirects)
  /\ redirects' = redirects (-) SetToBag({r})
  /\ resp' = [error("redirect", "InternalError", 500) EXCEPT
                !.httpStatus = 500, !.httpBody = "text"]
  /\ UNCHANGED <<tables, intervalTimer, curtime, limits, regDraws, stateDraws, regCalls,
                 exchanges, refreshes, presentedStates, crashed>>

-----------------------------------------------------------------------------
(* The token endpoint: one https.request and the events of its response *)

\* a request written and ended, no response yet
Request(key) == [key |-> key]

\* the responses the token endpoint may give: a status, the number of 'data'
\* events, and the JSON the body holds (Malformed: a body JSON.parse rejects)
Responses(results) ==
  {[statusCode |-> 200, chunks |-> n, body |-> b] :
       n \in 1..MaxChunks, b \in results \cup {Malformed}}
  \cup {[statusCode |-> s, chunks |-> n, body |-> Malformed] :
       s \in Statuses, n \in 0..MaxChunks}

\* https.request's callback: var resultBuffer = null, and the handlers installed
Opened(e, r) ==
  [key |-> e.key, statusCode |-> r.statusCode, chunks |-> r.chunks, body |-> r.body,
   resultBuffer |-> "null", callbacks |-> 0]

\* res.on('data', ...) of both requests: buffer on a 200, else call back at once
dataCallsBack(e) == e.statusCode # 200

AfterData(e) ==
  [e EXCEPT !.chunks = @ - 1,
            !.resultBuffer = IF dataCallsBack(e) THEN @ ELSE "data",
            !.callbacks = IF dataCallsBack(e) THEN @ + 1 ELSE @]

\* every 'data' event of the response delivered
RECURSIVE Received(_)
Received(e) == IF e.chunks = 0 THEN e ELSE Received(AfterData(e))

\* res.statusCode === 200 && resultBuffer !== null
gotTokens(e) == e.statusCode = 200 /\ e.resultBuffer # "null"

\* a route that answers a request it has answered before: res.send throws
\* inside the event handler (or, in an express that tolerates it, does not)
SecondSend(callbacks, crash) == callbacks >= 2 /\ crash

-----------------------------------------------------------------------------
(* auth.retrieveTokens *)

\* stateCode.length != STATE_NUM_BYTES*2 || pendingStateToRegCode[stateCode]
stateAccepted(stateCode) ==
  Len(stateCode) # STATE_NUM_BYTES * 2 \/ stateCode \in DOMAIN pendingStateToRegCode

\* pendingStateToRegCode[stateCode], "undefined" when there is none
stateRegCode(stateCode) ==
  IF stateCode \in DOMAIN pendingStateToRegCode
  THEN pendingStateToRegCode[stateCode] ELSE "undefined"

\* a state table that keeps the state code it was asked for
consumeStateKeep(stateCode) == pendingStateToRegCode

\* the state table after retrieveTokens read the state code
consumeState(stateCode) == Delete(pendingStateToRegCode, stateCode)

RetrieveTokens(stateCode) ==
  /\ ~crashed
  /\ IF stateAccepted(stateCode)
     THEN LET regCode == stateRegCode(stateCode)
          IN /\ pendingStateToRegCode' = consumeState(stateCode)
             /\ presentedStates' = presentedStates \cup
                                     ({stateCode} \cap DOMAIN pendingStateToRegCode)
             /\ IF /\ regCode \in DOMAIN pendingRegCodeToDevice
                   /\ unexpired(pendingRegCodeToDevice[regCode].expires, curtime)
                THEN /\ BagCardinality(exchanges) < limits.exchanges
                     /\ exchanges' = exchanges (+) SetToBag({Request(regCode)})
                     /\ resp' = [Quiet("retrieveTokens") EXCEPT !.state = stateCode]
                     /\ UNCHANGED <<pendingRegCodeToDevice, pendingDeviceToRegCode>>
                ELSE \* removePendingDevice(regCode) runs first, the callback after it
                     /\ LET st == removePendingDevice(Store, regCode)
                        IN /\ pendingRegCodeToDevice' = st.pendingRegCodeToDevice
                           /\ pendingDeviceToRegCode' = st.pendingDeviceToRegCode
                           /\ resp' = [statusRoute(error("retrieveTokens", "ExpiredRegistrationCode", 401))
                                         EXCEPT !.state = stateCode,
                                                !.pendingAtCallback =
                                                   regCode \in DOMAIN st.pendingRegCodeToDevice]
                     /\ UNCHANGED exchanges
     ELSE /\ resp' = [statusRoute(error("retrieveTokens", "InvalidState", 401))
                        EXCEPT !.state = stateCode]
          /\ UNCHANGED <<pendingStateToRegCode, presentedStates, exchanges,
                         pendingRegCodeToDevice, pendingDeviceToRegCode>>
  /\ UNCHANGED <<deviceInformation, pendingRegistrationQueue, intervalTimer, curtime, limits,
                 regDraws, stateDraws, regCalls, redirects, refreshes, crashed>>

\* req.on('error', ...): logged, and the caller is never answered
ExchangeError(e) ==
  /\ ~crashed
  /\ BagIn(e, exchanges)
  /\ exchanges' = exchanges (-) SetToBag({e})
  /\ resp' = Quiet("retrieveTokens.error")
  /\ UNCHANGED <<tables, intervalTimer, curtime, limits, regDraws, stateDraws, regCalls,
                 redirects, refreshes, presentedStates, crashed>>

tokenFailure(op, e) ==
  [statusRoute(error(op, "TokenRetrievalFailure", e.statusCode)) EXCEPT
     !.callbacks = e.callbacks + 1]

\* the record retrieveTokens stores for a device
deviceRecord(deviceSecret, result) ==
  [deviceSecret |-> deviceSecret,
   tokens |-> [access |-> result.access_token, refresh |-> result.refresh_token,
               expires |-> result.expires_in]]

\* a promotion that writes the record and leaves the registration pending
promoteKeepPending(info, st, regCode, result) ==
  LET product == st.pendingRegCodeToDevice[regCode].product
      dsn == st.pendingRegCodeToDevice[regCode].dsn
      deviceSecret == st.pendingRegCodeToDevice[regCode].deviceSecret
  IN [info |-> Put(info, productDsn(product, dsn),
                   [deviceSecret |-> deviceSecret,
                    tokens |-> [access |-> result.access_token,
                                refresh |-> result.refresh_token,
                                expires |-> result.expires_in]]),
      st |-> st]

\* the 'end' handler on a 200 with a body: the record is written, then the
\* registration removed
promote(info, st, regCode, result) ==
  LET product == st.pendingRegCodeToDevice[regCode].product
      dsn == st.pendingRegCodeToDevice[regCode].dsn
      deviceSecret == st.pendingRegCodeToDevice[regCode].deviceSecret
  IN [info |-> Put(info, productDsn(product, dsn), deviceRecord(deviceSecret, result)),
      st |-> removePendingDevice(st, regCode)]

\* the response r arrives: its 'data' events, then 'end'
ExchangeResponse(e, r) ==
  LET got == Received(Opened(e, r)) IN
  /\ ~crashed
  /\ BagIn(e, exchanges)
  /\ IF gotTokens(got)
     THEN IF got.body = Malformed
          THEN \* JSON.parse throws
               /\ resp' = [Quiet("retrieveTokens.end") EXCEPT !.err = "SyntaxError"]
               /\ Dead
               /\ UNCHANGED <<pendingRegCodeToDevice, pendingDeviceToRegCode, deviceInformation>>
          ELSE IF e.key \notin DOMAIN pendingRegCodeToDevice
          THEN \* pendingRegCodeToDevice[regCode].product throws
               /\ resp' = [Quiet("retrieveTokens.end") EXCEPT !.err = "TypeError"]
               /\ Dead
               /\ UNCHANGED <<pendingRegCodeToDevice, pendingDeviceToRegCode, deviceInformation>>
          ELSE LET p == promote(deviceInformation, Store, e.key, got.body)
               IN /\ deviceInformation' = p.info
                  /\ pendingRegCodeToDevice' = p.st.pendingRegCodeToDevice
                  /\ pendingDeviceToRegCode' = p.st.pendingDeviceToRegCode
                  /\ resp' = statusRoute([Quiet("retrieveTokens.end") EXCEPT
                                !.err = "null", !.callbacks = got.callbacks + 1,
                                !.message = "device tokens ready"])
                  /\ exchanges' = exchanges (-) SetToBag({e})
                  /\ UNCHANGED <<crashed, regCalls, redirects, refreshes>>
     ELSE /\ resp' = tokenFailure("retrieveTokens.end", got)
          /\ \E crash \in BOOLEAN :
               IF SecondSend(got.callbacks + 1, crash)
               THEN Dead
               ELSE /\ exchanges' = exchanges (-) SetToBag({e})
                    /\ UNCHANGED <<crashed, regCalls, redirects, refreshes>>
          /\ UNCHANGED <<pendingRegCodeToDevice, pendingDeviceToRegCode, deviceInformation>>
  /\ UNCHANGED <<pendingStateToRegCode, pendingRegistrationQueue, intervalTimer, curtime, limits,
                 regDraws, stateDraws, presentedStates>>

-----------------------------------------------------------------------------
(* auth.getAccessToken *)

\* the interval getAccessToken measures since the last poll
pollInterval(regInfo, now) ==
  IF regInfo.lastCall = 0 THEN MIN_POLL_RATE + 1 ELSE JsMinus(now, regInfo.lastCall)

\* interval <= MIN_POLL_RATE
tooFastInclusive(interval) == JsLess(interval, MIN_POLL_RATE + 1)

\* interval < MIN_POLL_RATE
tooFast(interval) == JsLess(interval, MIN_POLL_RATE)

backoffStatus(regInfo, now) ==
  IF tooFast(pollInterval(regInfo, now)) THEN "slowdown" ELSE "waiting"

\* regInfo.lastCall = curtime
polled(regInfo, now) == [regInfo EXCEPT !.lastCall = now]

\* a test that takes any secret once the device has a record
secretAcceptedAny(key, deviceSecret) == key \in DOMAIN deviceInformation

\* deviceInformation[productDsn] && deviceSecret.length == REG_NUM_BYTES*2 &&
\* deviceInformation[productDsn].deviceSecret === deviceSecret
secretAccepted(key, deviceSecret) ==
  /\ key \in DOMAIN deviceInformation
  /\ Len(deviceSecret) = REG_NUM_BYTES * 2
  /\ deviceInformation[key].deviceSecret = deviceSecret

GetAccessToken(product, dsn, deviceSecret) ==
  LET key == productDsn(product, dsn) IN
  /\ ~crashed
  /\ IF isValidDeviceThrows(product, dsn)
     THEN /\ resp' = [Quiet("getAccessToken") EXCEPT
                        !.err = "TypeError", !.httpStatus = 500, !.httpBody = "TypeError"]
          /\ UNCHANGED <<pendingRegCodeToDevice, refreshes>>
     ELSE IF ~isValidDevice(product, dsn)
     THEN /\ resp' = statusRoute(error("getAccessToken", "BadRequest", 400))
          /\ UNCHANGED <<pendingRegCodeToDevice, refreshes>>
     ELSE IF key \in DOMAIN pendingDeviceToRegCode
     THEN LET regCode == pendingDeviceToRegCode[key]
              regInfo == pendingRegCodeToDevice[regCode]
          IN IF unexpired(regInfo.expires, curtime)
             THEN IF regInfo.product = product /\ regInfo.dsn = dsn
                  THEN /\ pendingRegCodeToDevice' =
                            Put(pendingRegCodeToDevice, regCode, polled(regInfo, curtime))
                       /\ resp' = statusRoute([Quiet("getAccessToken") EXCEPT
                                     !.err = "null", !.callbacks = 1,
                                     !.poll_status = backoffStatus(regInfo, curtime)])
                       /\ UNCHANGED refreshes
                  ELSE /\ resp' = statusRoute(error("getAccessToken", "InvalidProductInformation", 401))
                       /\ UNCHANGED <<pendingRegCodeToDevice, refreshes>>
             ELSE /\ resp' = [statusRoute(error("getAccessToken", "ExpiredDeviceSecret", 401))
                               EXCEPT !.pendingAtCallback =
                                         regCode \in DOMAIN pendingRegCodeToDevice]
                  /\ UNCHANGED <<pendingRegCodeToDevice, refreshes>>
     ELSE IF secretAccepted(key, deviceSecret)
     THEN /\ BagCardinality(refreshes) < MaxRefreshes
          /\ refreshes' = refreshes (+) SetToBag({Request(key)})
          /\ resp' = Quiet("getAccessToken")
          /\ UNCHANGED pendingRegCodeToDevice
     ELSE /\ resp' = statusRoute(error("getAccessToken", "InvalidDeviceSecret", 401))
          /\ UNCHANGED <<pendingRegCodeToDevice, refreshes>>
  /\ UNCHANGED <<pendingStateToRegCode, pendingDeviceToRegCode, deviceInformation,
                 pendingRegistrationQueue, intervalTimer, curtime, limits, regDraws, stateDraws,
                 regCalls, redirects, exchanges, presentedStates, crashed>>

\* req.on('error', ...): the caller is answered TokenRetrievalFailure, status 500
RefreshError(e) ==
  /\ ~crashed
  /\ BagIn(e, refreshes)
  /\ refreshes' = refreshes (-) SetToBag({e})
  /\ resp' = statusRoute(error("getAccessToken.error", "TokenRetrievalFailure", 500))
  /\ UNCHANGED <<tables, intervalTimer, curtime, limits, regDraws, stateDraws, regCalls,
                 redirects, exchanges, presentedStates, crashed>>

\* a refresh that also overwrites the refresh token
refreshedAll(record, result) ==
  [record EXCEPT !.tokens.access = result.access_token,
                 !.tokens.refresh = result.refresh_token,
                 !.tokens.expires = result.expires_in]

\* tokens.access = result.access_token; tokens.expires = result.expires_in
refreshed(record, result) ==
  [record EXCEPT !.tokens.access = result.access_token,
                 !.tokens.expires = result.expires_in]

\* the response r arrives: its 'data' events, then 'end'
RefreshResponse(e, r) ==
  LET got == Received(Opened(e, r)) IN
  /\ ~crashed
  /\ BagIn(e, refreshes)
  /\ IF gotTokens(got)
     THEN IF got.body = Malformed
          THEN \* JSON.parse throws
               /\ resp' = [Quiet("getAccessToken.end") EXCEPT !.err = "SyntaxError"]
               /\ Dead
               /\ UNCHANGED deviceInformation
          ELSE /\ deviceInformation' =
                    Put(deviceInformation, e.key, refreshed(deviceInformation[e.key], got.body))
               /\ resp' = statusRoute([Quiet("getAccessToken.end") EXCEPT
                             !.err = "null", !.callbacks = got.callbacks + 1,
                             !.access = got.body.access_token,
                             !.expires = got.body.expires_in])
               /\ refreshes' = refreshes (-) SetToBag({e})
               /\ UNCHANGED <<crashed, regCalls, redirects, exchanges>>
     ELSE \* the 'data' handler has called back once per chunk; the else branch
          \* of 'end' logs `data`, which is not defined there: ReferenceError
          /\ resp' = IF got.callbacks = 0
                     THEN [Quiet("getAccessToken.end") EXCEPT !.err = "ReferenceError"]
                     ELSE [tokenFailure("getAccessToken.data", got) EXCEPT
                             !.callbacks = got.callbacks]
          /\ Dead
          /\ UNCHANGED deviceInformation
  /\ UNCHANGED <<pendingStateToRegCode, pendingRegCodeToDevice, pendingDeviceToRegCode,
                 pendingRegistrationQueue, intervalTimer, curtime, limits, regDraws, stateDraws,
                 presentedStates>>

-----------------------------------------------------------------------------
Init ==
  /\ pendingStateToRegCode = EmptyMap
  /\ pendingRegCodeToDevice = EmptyMap
  /\ pendingDeviceToRegCode = EmptyMap
  /\ deviceInformation = EmptyMap
  /\ pendingRegistrationQueue = <<>>
  /\ intervalTimer = "null"
  /\ curtime = StartTime
  /\ regDraws = 0
  /\ stateDraws = 0
  /\ regCalls = EmptyBag
  /\ redirects = EmptyBag
  /\ exchanges = EmptyBag
  /\ refreshes = EmptyBag
  /\ presentedStates = {}
  /\ resp = NoResp
  /\ crashed = FALSE
  /\ limits \in {Deep, Wide, Again, Twice}

Next ==
  \/ \E d \in DeviceInputs : GetRegCode(d[1], d[2])
  \/ \E c \in BagToSet(regCalls) : GetRegCodeRandomFails(c)
  \/ \E c \in BagToSet(regCalls) : GetRegCodeDrawn(c)
  \/ \E regCode \in RegCodeInputs : Register(regCode)
  \/ \E r \in BagToSet(redirects) : RedirectDraw(r)
  \/ \E r \in BagToSet(redirects) : RedirectRandomFails(r)
  \/ \E stateCode \in StateInputs : RetrieveTokens(stateCode)
  \/ \E e \in BagToSet(exchanges) : ExchangeError(e)
  \/ \E e \in BagToSet(exchanges), r \in Responses(AuthResults) : ExchangeResponse(e, r)
  \/ \E a \in AccessInputs : GetAccessToken(a[1], a[2], a[3])
  \/ \E e \in BagToSet(refreshes) : RefreshError(e)
  \/ \E e \in BagToSet(refreshes), r \in Responses(RefreshResults) : RefreshResponse(e, r)
  \/ Tick
  \/ CheckExpire

Spec == Init /\ [][Next]_vars

\* The server under the bounds whose clock runs past a registration's lifetime
LiveInit == Init /\ limits = Again

\* The same server with time passing and the interval timer firing: new
\* Date().getTime() keeps growing while the clock can advance, and setInterval
\* keeps calling checkExpire once it is armed (it is never cleared).
LiveSpec == LiveInit /\ [][Next]_vars /\ WF_vars(Tick) /\ WF_vars(CheckExpire)

-----------------------------------------------------------------------------
(* The claims *)

\* config.products lists dsn under product
Listed(product, dsn) ==
  product \in DOMAIN products /\ \E i \in DOMAIN products[product] : products[product][i] = dsn

\* the registration codes pending for a device
PendingCodes(product, dsn) ==
  {c \in DOMAIN pendingRegCodeToDevice :
     pendingRegCodeToDevice[c].product = product /\ pendingRegCodeToDevice[c].dsn = dsn}

TTL == MS_PER_SECOND * MAX_REG_SECONDS

\* C1: there is never more than one pending registration per (product, dsn),
\* and a getRegCode that reaches addPendingRegistration while its device has a
\* registration pending is answered PendingRegistration and leaves the pending
\* indexes and the queue as they were.
C1_OnePendingPerDevice ==
  [][/\ \A d \in DeviceInputs : Cardinality(PendingCodes(d[1], d[2])') <= 1
     /\ \A c \in BagToSet(regCalls) :
          GetRegCodeDrawn(c) /\ PendingCodes(c.product, c.dsn) # {}
            => /\ resp'.err = "PendingRegistration"
               /\ UNCHANGED <<pendingRegCodeToDevice, pendingDeviceToRegCode,
                              pendingRegistrationQueue>>]_vars

C1_Witness ==
  /\ resp.op = "getRegCode"
  /\ resp.err = "PendingRegistration"
  /\ \E d \in DeviceInputs : PendingCodes(d[1], d[2]) # {}

\* C2 (as claimed): the number of pending registrations never exceeds MAX_PENDING_REG.
C2_NeverAboveCap == Cardinality(DOMAIN pendingRegCodeToDevice) <= MAX_PENDING_REG

\* C3: a getRegCode for a listed device that reaches addPendingRegistration
\* while the device has nothing pending succeeds; its reply names a code the
\* store maps to the device, the secret replied and expires = now + TTL > now,
\* and the device index maps product:dsn to that code.
C3_IssueThenLookup ==
  [][\A c \in BagToSet(regCalls) :
       GetRegCodeDrawn(c) /\ Listed(c.product, c.dsn) /\ PendingCodes(c.product, c.dsn) = {}
         => /\ resp'.err = "null"
            /\ resp'.regCode \in DOMAIN pendingRegCodeToDevice'
            /\ LET reg == pendingRegCodeToDevice'[resp'.regCode]
               IN /\ reg.product = c.product
                  /\ reg.dsn = c.dsn
                  /\ reg.deviceSecret = resp'.deviceSecret
                  /\ reg.expires = resp'.expires
                  /\ reg.expires = curtime + TTL
                  /\ reg.expires > curtime
            /\ productDsn(c.product, c.dsn) \in DOMAIN pendingDeviceToRegCode'
            /\ pendingDeviceToRegCode'[productDsn(c.product, c.dsn)] = resp'.regCode]_vars

C3_Witness ==
  /\ resp.op = "getRegCode"
  /\ resp.err = "null"
  /\ resp.regCode \in DOMAIN pendingRegCodeToDevice
  /\ pendingRegCodeToDevice[resp.regCode].deviceSecret = resp.deviceSecret

\* C4 (as claimed): for a pair that is not listed, getRegCode and
\* getAccessToken answer BadRequest and leave every table as it was.
C4_UnlistedIsBadRequest ==
  [][\A d \in DeviceInputs :
       ~Listed(d[1], d[2])
         => /\ GetRegCode(d[1], d[2]) => resp'.err = "BadRequest" /\ UNCHANGED tables
            /\ GetAccessToken(d[1], d[2], "abc") => resp'.err = "BadRequest" /\ UNCHANGED tables]_vars

\* C5 (as claimed): after a sweep at time now, no registration with
\* expires <= now is left, and those with expires > now are untouched.
C5_SweepRemovesExpired ==
  [][resp'.op = "checkExpire"
       => /\ \A c \in DOMAIN pendingRegCodeToDevice' :
               pendingRegCodeToDevice'[c].expires > curtime
          /\ \A c \in DOMAIN pendingRegCodeToDevice :
               pendingRegCodeToDevice[c].expires > curtime
                 => /\ c \in DOMAIN pendingRegCodeToDevice'
                    /\ pendingRegCodeToDevice'[c] = pendingRegCodeToDevice[c]]_vars

\* C6: a state code that redirectToDeviceAuthenticate issued and retrieveTokens
\* has been given once gets InvalidState on every later retrieveTokens, and no
\* token request is started for it.
C6_StateIsSingleUse ==
  [][\A s \in presentedStates :
       RetrieveTokens(s) => resp'.err = "InvalidState" /\ UNCHANGED exchanges]_vars

C6_Witness ==
  /\ resp.op = "retrieveTokens"
  /\ resp.err = "InvalidState"
  /\ resp.state \in presentedStates

\* C7 (as claimed): retrieveTokens with a state code that is not in the state
\* table answers InvalidState, starts no token request and changes no table.
C7_UnknownStateIsInvalid ==
  [][\A s \in StateInputs :
       s \notin DOMAIN pendingStateToRegCode /\ RetrieveTokens(s)
         => resp'.err = "InvalidState" /\ UNCHANGED <<tables, exchanges>>]_vars

\* C8: a poll for a listed device whose registration is pending and unexpired
\* answers waiting the first time, afterwards slowdown if less than
\* MIN_POLL_RATE passed since the previous poll and waiting otherwise; it sets
\* lastCall to the current time and changes nothing else.
C8_PollBackoff ==
  [][resp'.op = "getAccessToken" =>
     \A a \in AccessInputs :
       /\ Listed(a[1], a[2])
       /\ \E c \in PendingCodes(a[1], a[2]) : pendingRegCodeToDevice[c].expires > curtime
       /\ GetAccessToken(a[1], a[2], a[3])
       => \E c \in PendingCodes(a[1], a[2]) :
            LET reg == pendingRegCodeToDevice[c]
            IN /\ resp'.err = "null"
               /\ resp'.poll_status =
                    IF reg.lastCall = Undefined THEN "waiting"
                    ELSE IF curtime - reg.lastCall < MIN_POLL_RATE THEN "slowdown"
                    ELSE "waiting"
               /\ pendingRegCodeToDevice' =
                    [pendingRegCodeToDevice EXCEPT ![c].lastCall = curtime]
               /\ UNCHANGED <<pendingStateToRegCode, pendingDeviceToRegCode, deviceInformation,
                              pendingRegistrationQueue, intervalTimer, inflight>>]_vars

C8_Witness ==
  /\ resp.op = "getAccessToken"
  /\ resp.poll_status = "slowdown"
  /\ \E c \in DOMAIN pendingRegCodeToDevice : pendingRegCodeToDevice[c].lastCall = curtime

\* the (product:dsn, secret) pairs that are at once pending and recorded
HalfPromoted ==
  {c \in DOMAIN pendingRegCodeToDevice :
     LET key == productDsn(pendingRegCodeToDevice[c].product, pendingRegCodeToDevice[c].dsn)
     IN /\ key \in DOMAIN deviceInformation
        /\ deviceInformation[key].deviceSecret = pendingRegCodeToDevice[c].deviceSecret}

RetrieveOps == {"retrieveTokens", "retrieveTokens.error", "retrieveTokens.end"}

\* C9: when retrieveTokens reports success, the device's record holds the
\* tokens of the response and the registration's secret, and the registration
\* has left both pending indexes; any other outcome of retrieveTokens leaves
\* deviceInformation alone; no state has a registration both pending and recorded.
C9_PromotionIsAtomic ==
  [][/\ \A e \in BagToSet(exchanges), r \in Responses(AuthResults) :
          ExchangeResponse(e, r) /\ resp'.err = "null"
            => /\ e.key \in DOMAIN pendingRegCodeToDevice
               /\ LET reg == pendingRegCodeToDevice[e.key]
                      key == productDsn(reg.product, reg.dsn)
                  IN /\ key \in DOMAIN deviceInformation'
                     /\ deviceInformation'[key] =
                          [deviceSecret |-> reg.deviceSecret,
                           tokens |-> [access |-> r.body.access_token,
                                       refresh |-> r.body.refresh_token,
                                       expires |-> r.body.expires_in]]
                     /\ e.key \notin DOMAIN pendingRegCodeToDevice'
                     /\ key \notin DOMAIN pendingDeviceToRegCode'
     /\ resp'.op \in RetrieveOps /\ resp'.err # "null"
          => deviceInformation' = deviceInformation
     /\ HalfPromoted' = {}]_vars

C9_Witness ==
  /\ resp.op = "retrieveTokens.end"
  /\ resp.err = "null"
  /\ resp.message = "device tokens ready"
  /\ deviceInformation # EmptyMap

\* C10: for a device with a record and nothing pending, getAccessToken with the
\* record's secret starts a refresh request and touches no table; a 200
\* response with a JSON body answers {access, expires} from the response and
\* changes the record's access token and expiry and nothing else.
C10_RefreshUpdatesAccessOnly ==
  [][/\ resp'.op = "getAccessToken" =>
        \A a \in AccessInputs :
          /\ Listed(a[1], a[2])
          /\ PendingCodes(a[1], a[2]) = {}
          /\ productDsn(a[1], a[2]) \in DOMAIN deviceInformation
          /\ deviceInformation[productDsn(a[1], a[2])].deviceSecret = a[3]
          /\ GetAccessToken(a[1], a[2], a[3])
          => /\ refreshes' = refreshes (+) SetToBag({Request(productDsn(a[1], a[2]))})
             /\ UNCHANGED tables
     /\ resp'.op = "getAccessToken.end" =>
        \A e \in BagToSet(refreshes), r \in Responses(RefreshResults) :
          r.statusCode = 200 /\ r.chunks > 0 /\ r.body # Malformed /\ RefreshResponse(e, r)
            => /\ resp'.err = "null"
               /\ resp'.access = r.body.access_token
               /\ resp'.expires = r.body.expires_in
               /\ DOMAIN deviceInformation' = DOMAIN deviceInformation
               /\ \A k \in DOMAIN deviceInformation :
                    deviceInformation'[k] =
                      IF k = e.key
                      THEN [deviceSecret |-> deviceInformation[k].deviceSecret,
                            tokens |-> [access |-> r.body.access_token,
                                        refresh |-> deviceInformation[k].tokens.refresh,
                                        expires |-> r.body.expires_in]]
                      ELSE deviceInformation[k]
               /\ UNCHANGED <<pendingStateToRegCode, pendingRegCodeToDevice,
                              pendingDeviceToRegCode, pendingRegistrationQueue>>]_vars

C10_Witness ==
  /\ resp.op = "getAccessToken.end"
  /\ resp.err = "null"
  /\ resp.access = "A2"
  /\ \E k \in DOMAIN deviceInformation :
       deviceInformation[k].tokens.access = "A2" /\ deviceInformation[k].tokens.refresh = "R"

\* the presented secret is the one the device's record holds
SecretMatches(product, dsn, deviceSecret) ==
  /\ productDsn(product, dsn) \in DOMAIN deviceInformation
  /\ deviceInformation[productDsn(product, dsn)].deviceSecret = deviceSecret

\* C11: getAccessToken starts a refresh request only when the presented
\* secret is the one in the device's record; for a listed device with nothing
\* pending and any other secret it answers InvalidDeviceSecret, starts no
\* request and changes no table; and an access token is handed out only as the
\* answer to a request started that way.
C11_TokenOnlyForStoredSecret ==
  [][/\ resp'.op = "getAccessToken" =>
        \A a \in AccessInputs :
          GetAccessToken(a[1], a[2], a[3]) =>
            /\ refreshes' # refreshes => SecretMatches(a[1], a[2], a[3])
            /\ (/\ Listed(a[1], a[2])
                /\ PendingCodes(a[1], a[2]) = {}
                /\ ~SecretMatches(a[1], a[2], a[3]))
               => /\ resp'.err = "InvalidDeviceSecret"
                  /\ UNCHANGED <<tables, refreshes>>
     /\ resp'.access # "" =>
          \E e \in BagToSet(refreshes) : refreshes' = refreshes (-) SetToBag({e})]_vars

C11_Witness ==
  /\ resp.op = "getAccessToken"
  /\ resp.err = "InvalidDeviceSecret"
  /\ \E d \in limits.dsns : productDsn("speaker", d) \in DOMAIN deviceInformation
  /\ refreshes = EmptyBag

\* C12 (as claimed): when the token request of retrieveTokens fails (a transport
\* error, or a response with a status other than 200, with or without a
\* body), the callback is given TokenRetrievalFailure exactly once, and the
\* record table and the pending registration are left as they were.
C12_ExchangeFailureReportedOnce ==
  [][\A e \in BagToSet(exchanges) :
       (\/ ExchangeError(e)
        \/ \E r \in Responses(AuthResults) : r.statusCode # 200 /\ ExchangeResponse(e, r))
       => /\ resp'.err = "TokenRetrievalFailure"
          /\ resp'.callbacks = 1
          /\ UNCHANGED <<deviceInformation, pendingRegCodeToDevice, pendingDeviceToRegCode>>]_vars

\* C13 (as claimed): when the refresh request of getAccessToken fails (a
\* transport error, or a response with a status other than 200, with or
\* without a body), the callback is given TokenRetrievalFailure exactly once
\* and the device's record is left as it was.
C13_RefreshFailureReportedOnce ==
  [][\A e \in BagToSet(refreshes) :
       (\/ RefreshError(e)
        \/ \E r \in Responses(RefreshResults) : r.statusCode # 200 /\ RefreshResponse(e, r))
       => /\ resp'.err = "TokenRetrievalFailure"
          /\ resp'.callbacks = 1
          /\ UNCHANGED deviceInformation]_vars

\* the code has the length of a registration code and names a pending registration
NamesPending(regCode) ==
  Len(regCode) = REG_NUM_BYTES * 2 /\ regCode \in DOMAIN pendingRegCodeToDevice

\* C14: register starts a redirect only for a code of 24 characters that names
\* a registration pending and unexpired at the time of the call, and a state
\* code is recorded only by the redirect of such a call, mapped to its code;
\* a code of another length or not in the store gets InvalidRegistrationCode
\* and no table changes; a pending but expired code gets
\* ExpiredRegistrationCode and no state code is recorded.
C14_RegisterValidatesCode ==
  [][/\ resp'.op = "register" =>
        \A regCode \in RegCodeInputs :
          Register(regCode) =>
            /\ ~NamesPending(regCode)
                 => /\ resp'.err = "InvalidRegistrationCode"
                    /\ UNCHANGED <<tables, redirects>>
            /\ (NamesPending(regCode) /\ pendingRegCodeToDevice[regCode].expires <= curtime)
                 => /\ resp'.err = "ExpiredRegistrationCode"
                    /\ UNCHANGED <<pendingStateToRegCode, redirects>>
            /\ redirects' # redirects
                 => /\ NamesPending(regCode)
                    /\ pendingRegCodeToDevice[regCode].expires > curtime
                    /\ redirects' = redirects (+) SetToBag({[regCode |-> regCode]})
     /\ BagCardinality(redirects') > BagCardinality(redirects) => resp'.op = "register"
     /\ ~(DOMAIN pendingStateToRegCode' \subseteq DOMAIN pendingStateToRegCode)
          => \E r \in BagToSet(redirects) :
               /\ redirects' = redirects (-) SetToBag({r})
               /\ pendingStateToRegCode' = Put(pendingStateToRegCode, resp'.state, r.regCode)
               /\ resp'.httpStatus = 302]_vars

C14_Witness ==
  /\ resp.op = "redirect"
  /\ resp.httpStatus = 302
  /\ resp.state \in DOMAIN pendingStateToRegCode
  /\ pendingStateToRegCode[resp.state] = resp.regCode

\* the codes removePendingDevice may be given: issued ones, foreign ones, and
\* the undefined of a state code that maps to nothing
RemoveInputs == RegCodeInputs \cup {"undefined"}

\* C15: removePendingDevice is idempotent: on every reachable store and every
\* code, removing twice gives the store that removing once gives, and removing
\* a code that is not pending gives the store back unchanged.
C15_RemoveIsIdempotent ==
  \A regCode \in RemoveInputs :
    LET once == removePendingDevice(Store, regCode)
    IN /\ removePendingDevice(once, regCode) = once
       /\ regCode \notin DOMAIN pendingRegCodeToDevice => once = Store
       /\ regCode \notin DOMAIN once.pendingRegCodeToDevice

\* a store removePendingDevice has worked on: one code is gone from the
\* indexes (the queue still names it) and another is pending
C15_Witness ==
  /\ \E i \in DOMAIN pendingRegistrationQueue :
       pendingRegistrationQueue[i] \notin DOMAIN pendingRegCodeToDevice
  /\ \E regCode \in RemoveInputs :
       /\ regCode \in DOMAIN pendingRegCodeToDevice
       /\ removePendingDevice(Store, regCode) # Store

\* the errors getRegCode gives its callback
IssueErrors == {"BadRequest", "InternalError", "Throttle", "PendingRegistration"}

\* C16 (as claimed): whenever getRegCode fails, the regcode route answers with
\* the {error, message, extras} payload and with the status of the error.
C16_IssueFailureKeepsStatus ==
  (resp.op = "getRegCode" /\ resp.err \in IssueErrors)
    => (resp.httpBody = "error" /\ resp.httpStatus = resp.status)

\* the errors the callbacks of authentication.js are given
ClassifiedErrors ==
  {"BadRequest", "InternalError", "Throttle", "PendingRegistration", "InvalidRegistrationCode",
   "ExpiredRegistrationCode", "InvalidState", "TokenRetrievalFailure", "InvalidProductInformation",
   "ExpiredDeviceSecret", "InvalidDeviceSecret"}

\* C17 (as claimed): when the registration of a token request in flight has
\* been removed meanwhile, the arrival of the tokens (a 200 response with a
\* JSON body) creates no record, reads nothing of the removed entry (nothing
\* throws) and gives the callback a classified error.
C17_CompletionAfterRemoval ==
  [][\A e \in BagToSet(exchanges), r \in Responses(AuthResults) :
       /\ e.key \notin DOMAIN pendingRegCodeToDevice
       /\ r.statusCode = 200 /\ r.body # Malformed
       /\ ExchangeResponse(e, r)
       => /\ UNCHANGED deviceInformation
          /\ ~crashed'
          /\ resp'.err \in ClassifiedErrors]_vars

\* C18 (as claimed): whenever retrieveTokens writes a device record, the
\* registration it promotes expires later than the time of the write.
C18_NoPromotionAfterExpiry ==
  [][\A e \in BagToSet(exchanges), r \in Responses(AuthResults) :
       (ExchangeResponse(e, r) /\ deviceInformation' # deviceInformation)
         => /\ e.key \in DOMAIN pendingRegCodeToDevice
            /\ pendingRegCodeToDevice[e.key].expires > curtime]_vars

\* C19 (as claimed): when a callback is given ExpiredRegistrationCode or
\* ExpiredDeviceSecret, the expired registration is no longer in
\* pendingRegCodeToDevice at that moment.
C19_ExpiryReportedAfterRemoval ==
  resp.err \in {"ExpiredRegistrationCode", "ExpiredDeviceSecret"} => ~resp.pendingAtCallback

\* the registration codes getRegCode can issue under the bounds of LiveSpec
IssuableCodes == {RegHex((2 * i) - 1) : i \in 1 .. AgainRegistrations}

\* the last instant the clock of the model reaches
LastInstant == Instant(limits.maxTime)

\* C20: with time passing and the timer firing, every registration whose
\* lifetime ends before the clock of the model stops leaves both pending
\* indexes (or the process has died); a code that has left never comes back,
\* so a later registration of the device carries a new code; the timer is
\* armed from the first insertion on and never cleared.
C20_PendingEventuallyLeaves ==
  /\ \A c \in IssuableCodes :
       (c \in DOMAIN pendingRegCodeToDevice /\ pendingRegCodeToDevice[c].expires < LastInstant)
         ~> (\/ crashed
             \/ /\ c \notin DOMAIN pendingRegCodeToDevice
                /\ \A k \in DOMAIN pendingDeviceToRegCode : pendingDeviceToRegCode[k] # c)
  /\ [][\A c \in DOMAIN pendingRegCodeToDevice' \ DOMAIN pendingRegCodeToDevice :
          c \notin {RegHex(k) : k \in 1 .. regDraws}]_vars
  /\ [](intervalTimer = "null"
          => (pendingRegCodeToDevice = EmptyMap /\ pendingRegistrationQueue = <<>>))
  /\ [][intervalTimer = "armed" => intervalTimer' = "armed"]_vars

\* a device registered again, after its first registration ran out and was swept
C20_Witness ==
  /\ resp.op = "getRegCode"
  /\ resp.err = "null"
  /\ regDraws = 4
  /\ Cardinality(DOMAIN pendingRegCodeToDevice) = 1
  /\ deviceInformation = EmptyMap
  /\ Len(pendingRegistrationQueue) = 1
  /\ curtime > StartTime + TTL

\* the codes the expiry queue holds
QueuedCodes == {pendingRegistrationQueue[i] : i \in DOMAIN pendingRegistrationQueue}

\* C21: in every reachable state the pending structures agree: a code is in
\* pendingRegCodeToDevice with (product, dsn) exactly if pendingDeviceToRegCode
\* maps product:dsn to it, and every code in pendingRegCodeToDevice is in
\* pendingRegistrationQueue.
C21_PendingStructuresAgree ==
  /\ \A c \in DOMAIN pendingRegCodeToDevice :
       LET key == productDsn(pendingRegCodeToDevice[c].product, pendingRegCodeToDevice[c].dsn)
       IN key \in DOMAIN pendingDeviceToRegCode /\ pendingDeviceToRegCode[key] = c
  /\ \A key \in DOMAIN pendingDeviceToRegCode :
       LET c == pendingDeviceToRegCode[key]
       IN /\ c \in DOMAIN pendingRegCodeToDevice
          /\ productDsn(pendingRegCodeToDevice[c].product, pendingRegCodeToDevice[c].dsn) = key
  /\ DOMAIN pendingRegCodeToDevice \subseteq QueuedCodes

\* the sweep has removed a first registration and left a second one pending
C21_Witness ==
  /\ resp.op = "checkExpire"
  /\ regDraws = 4
  /\ Cardinality(DOMAIN pendingRegCodeToDevice) = 1
  /\ Len(pendingRegistrationQueue) = 1
  /\ DOMAIN pendingDeviceToRegCode # {}

\* the handlers that call removePendingDevice outside the sweep
RemovalOps == {"register", "retrieveTokens", "retrieveTokens.end"}

\* the codes a step takes out of pendingRegCodeToDevice
RemovedCodes == DOMAIN pendingRegCodeToDevice \ DOMAIN pendingRegCodeToDevice'

\* C22 (as claimed): right after a removal by promotion or by the expired-code
\* check of register or retrieveTokens, the code is in neither index and not
\* in the queue.
C22_RemovedFromAllThree ==
  [][resp'.op \in RemovalOps =>
       \A c \in RemovedCodes :
         /\ \A key \in DOMAIN pendingDeviceToRegCode' : pendingDeviceToRegCode'[key] # c
         /\ c \notin QueuedCodes']_vars

\* C22 (amended): right after such a removal the code is in neither index; the
\* queue is left as it was and still names the code, until checkExpire shifts
\* it; and register's expired-code check does remove the code it was given.
C22_RemovedFromIndexes ==
  [][resp'.op \in RemovalOps =>
       /\ \A c \in RemovedCodes :
            /\ \A key \in DOMAIN pendingDeviceToRegCode' : pendingDeviceToRegCode'[key] # c
            /\ c \in QueuedCodes'
       /\ pendingRegistrationQueue' = pendingRegistrationQueue
       /\ (resp'.op = "register" /\ resp'.err = "ExpiredRegistrationCode")
            => resp'.regCode \in RemovedCodes]_vars

C22_Witness ==
  /\ resp.op = "register"
  /\ resp.err = "ExpiredRegistrationCode"
  /\ resp.regCode \in QueuedCodes
  /\ resp.regCode \notin DOMAIN pendingRegCodeToDevice
  /\ pendingDeviceToRegCode = EmptyMap

\* C23 (as claimed): in every reachable state at most one state code in
\* pendingStateToRegCode is bound to any registration code.
C23_OneStatePerCode ==
  \A s1 \in DOMAIN pendingStateToRegCode, s2 \in DOMAIN pendingStateToRegCode :
    pendingStateToRegCode[s1] = pendingStateToRegCode[s2] => s1 = s2

\* C24 (as claimed): a record in deviceInformation stays there over every
\* step with the same deviceSecret and the same refresh token, and its access
\* token and expiry change only at the end of a refresh that answers without
\* an error.
C24_RecordIsPermanent ==
  [][\A key \in DOMAIN deviceInformation :
       /\ key \in DOMAIN deviceInformation'
       /\ deviceInformation'[key].deviceSecret = deviceInformation[key].deviceSecret
       /\ deviceInformation'[key].tokens.refresh = deviceInformation[key].tokens.refresh
       /\ (\/ deviceInformation'[key].tokens.access # deviceInformation[key].tokens.access
           \/ deviceInformation'[key].tokens.expires # deviceInformation[key].tokens.expires)
          => (resp'.op = "getAccessToken.end" /\ resp'.err = "null")]_vars

\* C25 (as claimed): a getAccessToken call for a device with a pending
\* registration, made with a secret other than the one bound to that
\* registration, is answered with an error, carries no poll_status and leaves
\* the registration's lastCall as it was.
C25_PollNeedsSecret ==
  [][resp'.op = "getAccessToken" =>
       \A a \in AccessInputs :
         (/\ GetAccessToken(a[1], a[2], a[3])
          /\ productDsn(a[1], a[2]) \in DOMAIN pendingDeviceToRegCode
          /\ pendingRegCodeToDevice[pendingDeviceToRegCode[productDsn(a[1], a[2])]].deviceSecret
               # a[3])
         => /\ resp'.poll_status = ""
            /\ resp'.err \notin {"null", "none"}
            /\ pendingRegCodeToDevice' = pendingRegCodeToDevice]_vars

\* C26 (as claimed): every getAccessToken call that presents the deviceSecret
\* held in the device's record starts a request to the token endpoint, and is
\* answered neither with a poll_status nor with ExpiredDeviceSecret.
C26_PromotedPollRefreshes ==
  [][resp'.op = "getAccessToken" =>
       \A a \in AccessInputs :
         (GetAccessToken(a[1], a[2], a[3]) /\ SecretMatches(a[1], a[2], a[3]))
         => /\ refreshes' # refreshes
            /\ resp'.poll_status = ""
            /\ resp'.err # "ExpiredDeviceSecret"]_vars

====
